---- MODULE Spec2Model ----
(***************************************************************************)
(* Ledger and tally engine of the e-voting storage service                 *)
(* (storage_service.py) together with the chain linking of                 *)
(* result_export_module.py, as a state machine.                            *)
(*                                                                         *)
(* The service is a threaded Flask application (app.run(threaded=True)):   *)
(* every request handler runs in its own thread, and the export module is  *)
(* a separate script working on the same ledger file.  The only            *)
(* synchronisation in the code is tallying_lock around the test-and-set of *)
(* tallying_in_progress; the ledger file is read and rewritten without any *)
(* lock.  Each action below is one handler step between two accesses of    *)
(* shared state (the two files and the flag).  The activities in Procs    *)
(* are interchangeable: each is a handler thread of the service or a run   *)
(* of the export script, and a new operation takes the lowest idle one.    *)
(*                                                                         *)
(* Spec is the service under concurrent requests.  SeqSpec runs one        *)
(* operation at a time, the export script's linking included, over a       *)
(* wider set of submissions.                                               *)
(*                                                                         *)
(* Wall-clock fields (created_at, last_updated, the results' timestamp)    *)
(* are left out: no handler reads them.                                    *)
(***************************************************************************)
EXTENDS Integers, Sequences, FiniteSets, TLC

VARIABLES
    ledgerFile,            \* data/vote_ledger.json
    resultsFile,           \* data/election_results.json
    tallying_in_progress,  \* the global flag of storage_service.py
    pc,                    \* where each handler thread stands
    local,                 \* the local variables of each handler thread
    response,              \* the response sent in the last step, if any
    midTally,              \* history: vote hashes accepted since the running tally's snapshot
    counted,               \* history: vote hashes counted into the persisted vote_counts
    lastLedger,            \* history: the last document written whole to the ledger file
    processed              \* history, kept where it is switched on: vote hashes of the ranges of the
                           \* tally runs that ended with success

vars == <<ledgerFile, resultsFile, tallying_in_progress, pc, local,
          response, midTally, counted, lastLedger, processed>>

(***************************************************************************)
(* Bounds of the model.                                                    *)
(***************************************************************************)
\* Tally requests are taken while the persisted total is at most MaxTotal
\* minus the number of voters, so that vote counts stay below MaxTotal.
MaxTotal == 4

VoterIds == {"V1", "V2"}
Timestamps == {"T1"}
\* encA and encB decrypt to ballots for A and B, encX decrypts to a text
\* without the three fields, junk does not decrypt.
Ciphertexts == {"encA", "encB", "encX", "junk"}
\* The submissions that are tried: voter and ciphertext.
Ballots == {<<"V1", "encA">>, <<"V2", "encB">>, <<"V2", "junk">>}
AllBallots == VoterIds \X Ciphertexts
\* The operations in progress at the same time.
Procs == {1, 2}

\* A field a request or a JSON object does not carry (Python None).
NoField == "<none>"
ModeInputs == {NoField, "incremental", "full", "recount"}
TimeLockInputs == {-1, 5}

(***************************************************************************)
(* Values                                                                  *)
(***************************************************************************)
sha256(s) == "sha256(" \o s \o ")"

\* "0" * 64
GenesisHash == "0000000000000000000000000000000000000000000000000000000000000000"

EmptyLedger ==
    [votes |-> << >>,
     metadata |-> [total_votes |-> 0, last_tallied_index |-> -1],
     blockchain_enabled |-> FALSE,
     chain_length |-> 0,
     latest_block_hash |-> NoField]

\* A file holds a JSON document, or nothing (opened for writing and not yet
\* written), or the bytes of two overlapping writes.
JsonFile(doc) == [kind |-> "json", doc |-> doc]
EmptyFile == [kind |-> "empty", doc |-> EmptyLedger]
CorruptFile == [kind |-> "corrupt", doc |-> EmptyLedger]

NoResults ==
    [vote_counts |-> << >>, winner |-> NoField, total_votes |-> 0,
     tally_type |-> NoField]
NoResultsFile == [exists |-> FALSE, doc |-> NoResults]

NoLocal ==
    [ledger |-> EmptyLedger, mode |-> NoField, time_lock_seconds |-> 0,
     votes_to_process |-> << >>, start_index |-> 0,
     decrypted_votes |-> << >>, voter_id |-> NoField, vote_hash |-> NoField,
     results |-> NoResults]

\* A response: the handler thread that sent it, the voter of the request it
\* answers (store_vote), the status code and the fields of the JSON body.
\* The fields of the bodies of the GET routes, with the route that sent
\* them.
NoBody ==
    [route |-> NoField, tallying_in_progress |-> FALSE, total_votes |-> 0,
     tallied_votes |-> 0, new_votes_pending |-> 0, pending_votes |-> 0,
     results |-> NoResults, ledger |-> EmptyLedger]

NoResponse ==
    [proc |-> 0, voter_id |-> NoField, code |-> 0, success |-> FALSE,
     error |-> NoField, vote_hash |-> NoField, body |-> NoBody]
Response(code, success, error, hash) ==
    [proc |-> 0, voter_id |-> NoField, code |-> code, success |-> success,
     error |-> error, vote_hash |-> hash, body |-> NoBody]

Range(s) == {s[i] : i \in 1..Len(s)}

(***************************************************************************)
(* Module 1: the ledger file                                               *)
(***************************************************************************)
\* storage_service.py load_ledger: any failure to read or parse gives the
\* empty default ledger.
load_ledger ==
    IF ledgerFile.kind = "json"
    THEN ledgerFile.doc
    ELSE EmptyLedger

\* open(LEDGER_FILE, "w"): the file is truncated at once, the document is
\* written when json.dump's buffer is flushed.
OpenForWrite ==
    /\ ledgerFile' = EmptyFile
    /\ UNCHANGED lastLedger

\* The flush of a writer that truncated the file earlier.  If the file is
\* empty the document lands whole.  If another writer has written since, the
\* two writes overlap: a longer document stays behind the end of a shorter
\* one, and writes of several buffers may mix.
WriteOutcomes(doc) ==
    IF ledgerFile.kind = "empty"
    THEN {JsonFile(doc)}
    ELSE IF ledgerFile.kind = "corrupt"
              \/ Len(ledgerFile.doc.votes) > Len(doc.votes)
         THEN {CorruptFile}
         ELSE {JsonFile(doc), CorruptFile}

save_ledger(doc) ==
    \E f \in WriteOutcomes(doc) :
        /\ ledgerFile' = f
        /\ lastLedger' = IF f.kind = "json" THEN doc ELSE lastLedger

(***************************************************************************)
(* Module 2: vote storage (POST /store_vote)                               *)
(***************************************************************************)
\* An entry whose vote_hash leaves the ciphertext out.
VoteEntry_HashNoCiphertext(voter_id, encrypted_vote, timestamp) ==
    [voter_id |-> voter_id,
     encrypted_vote |-> encrypted_vote,
     timestamp |-> timestamp,
     vote_hash |-> sha256(voter_id \o timestamp),
     tallied |-> FALSE,
     previous_hash |-> NoField,
     block_hash |-> NoField,
     block_number |-> 0]

VoteEntry(voter_id, encrypted_vote, timestamp) ==
    [voter_id |-> voter_id,
     encrypted_vote |-> encrypted_vote,
     timestamp |-> timestamp,
     vote_hash |-> sha256(voter_id \o encrypted_vote \o timestamp),
     tallied |-> FALSE,
     previous_hash |-> NoField,
     block_hash |-> NoField,
     block_number |-> 0]

\* A duplicate check that looks at the last entry only: with it a voter can
\* be stored twice.
HasVoted_LastOnly(ledger, voter_id) ==
    /\ ledger.votes # << >>
    /\ ledger.votes[Len(ledger.votes)].voter_id = voter_id

HasVoted(ledger, voter_id) ==
    \E i \in 1..Len(ledger.votes) : ledger.votes[i].voter_id = voter_id

\* An append that writes the entries it found anew from their voter_id,
\* encrypted_vote and timestamp: the chain fields are gone.
AppendEntry_DropsChain(ledger, entry) ==
    [ledger EXCEPT
        !.votes = Append([i \in 1..Len(ledger.votes) |->
                            VoteEntry(ledger.votes[i].voter_id,
                                      ledger.votes[i].encrypted_vote,
                                      ledger.votes[i].timestamp)],
                         entry),
        !.metadata.total_votes = Len(ledger.votes) + 1]

\* An append that counts the entries before it adds the new one.
AppendEntry_CountsBefore(ledger, entry) ==
    [ledger EXCEPT
        !.votes = Append(ledger.votes, entry),
        !.metadata.total_votes = Len(ledger.votes)]

\* An append that leaves metadata.total_votes as it was.
AppendEntry_StaleTotal(ledger, entry) ==
    [ledger EXCEPT !.votes = Append(ledger.votes, entry)]

AppendEntry(ledger, entry) ==
    [ledger EXCEPT
        !.votes = Append(ledger.votes, entry),
        !.metadata.total_votes = Len(ledger.votes) + 1]

Finish(p, resp) ==
    /\ pc' = [pc EXCEPT ![p] = "idle"]
    /\ local' = [local EXCEPT ![p] = NoLocal]
    /\ response' = [resp EXCEPT !.proc = p]

Goto(p, label, loc) ==
    /\ pc' = [pc EXCEPT ![p] = label]
    /\ local' = [local EXCEPT ![p] = loc]
    /\ response' = NoResponse

\* A new operation is taken by the lowest idle activity.
Free(p) ==
    /\ pc[p] = "idle"
    /\ \A q \in Procs : q < p => pc[q] # "idle"

\* store_vote with a missing field: 400 before the ledger is touched.
StoreVoteMissing(p) ==
    /\ Free(p)
    /\ Finish(p, Response(400, FALSE, "Missing required fields", NoField))
    /\ UNCHANGED <<ledgerFile, lastLedger, resultsFile, tallying_in_progress, midTally, counted, processed>>

\* store_encrypted_vote up to the duplicate check: the voter is in the
\* ledger that was loaded.
StoreVoteDuplicate(p, voter_id) ==
    /\ Free(p)
    /\ HasVoted(load_ledger, voter_id)
    /\ Finish(p, [Response(400, FALSE, "Voter has already cast a vote", NoField)
                    EXCEPT !.voter_id = voter_id])
    /\ UNCHANGED <<ledgerFile, lastLedger, resultsFile, tallying_in_progress, midTally, counted, processed>>

\* A store that is taken only while no tally run is active.
StoreVoteLoad_WhenIdle(p, voter_id, encrypted_vote, timestamp) ==
    /\ Free(p)
    /\ ~tallying_in_progress
    /\ ~HasVoted(load_ledger, voter_id)
    /\ LET entry == VoteEntry(voter_id, encrypted_vote, timestamp)
       IN Goto(p, "store_open",
               [NoLocal EXCEPT !.ledger = AppendEntry(load_ledger, entry),
                               !.voter_id = voter_id,
                               !.vote_hash = entry.vote_hash])
    /\ UNCHANGED <<ledgerFile, lastLedger, resultsFile, tallying_in_progress, midTally, counted, processed>>

\* store_encrypted_vote from load_ledger to the append on the loaded copy.
StoreVoteLoad(p, voter_id, encrypted_vote, timestamp) ==
    /\ Free(p)
    /\ ~HasVoted(load_ledger, voter_id)
    /\ LET entry == VoteEntry(voter_id, encrypted_vote, timestamp)
       IN Goto(p, "store_open",
               [NoLocal EXCEPT !.ledger = AppendEntry(load_ledger, entry),
                               !.voter_id = voter_id,
                               !.vote_hash = entry.vote_hash])
    /\ UNCHANGED <<ledgerFile, lastLedger, resultsFile, tallying_in_progress, midTally, counted, processed>>

\* save_ledger: open(LEDGER_FILE, "w").
StoreVoteOpen(p) ==
    /\ pc[p] = "store_open"
    /\ OpenForWrite
    /\ Goto(p, "store_write", local[p])
    /\ UNCHANGED <<resultsFile, tallying_in_progress, midTally, counted, processed>>

TallySnapshotTaken ==
    \E t \in Procs : pc[t] \in {"time_lock", "tally_write"}

\* save_ledger: the document is written; store_vote answers 200 with the hash.
StoreVoteWrite(p) ==
    /\ pc[p] = "store_write"
    /\ save_ledger(local[p].ledger)
    /\ Finish(p, [Response(200, TRUE, NoField, local[p].vote_hash)
                    EXCEPT !.voter_id = local[p].voter_id])
    /\ midTally' = IF TallySnapshotTaken
                   THEN midTally \cup {local[p].vote_hash}
                   ELSE midTally
    /\ UNCHANGED <<resultsFile, tallying_in_progress, counted, processed>>

(***************************************************************************)
(* Module 0: local decryption                                              *)
(***************************************************************************)
\* RSA-OAEP decryption as a table: the text a ciphertext decrypts to, already
\* split at '|'.  junk is not a ciphertext of the key.
Plaintext(encrypted_vote) ==
    CASE encrypted_vote = "encA" -> <<"voter", "A", "time">>
      [] encrypted_vote = "encB" -> <<"voter", "B", "time">>
      [] encrypted_vote = "encX" -> <<"voter", "A">>
      [] OTHER -> << >>

\* decrypt_vote_data_local raises for a missing key and for a text that
\* does not decrypt.
decrypt_vote_data_local(encrypted_vote, private_key) ==
    IF private_key /\ encrypted_vote \in {"encA", "encB", "encX"}
    THEN [ok |-> TRUE, parts |-> Plaintext(encrypted_vote)]
    ELSE [ok |-> FALSE, parts |-> << >>]

(***************************************************************************)
(* Module 3: decryption and tallying (POST /tally_results)                 *)
(***************************************************************************)
\* The body of the loop of decrypt_all_votes for one entry: the decrypted
\* vote it appends, or nothing for an entry that fails.
DecryptEntry(vote_entry) ==
    LET d == decrypt_vote_data_local(vote_entry.encrypted_vote, TRUE)
    IN IF d.ok /\ Len(d.parts) = 3
       THEN <<[voter_id |-> d.parts[1], candidate |-> d.parts[2],
               timestamp |-> d.parts[3]]>>
       ELSE << >>

\* A loop that stops at the first entry that fails.
RECURSIVE DecryptLoop_FailFast(_)
DecryptLoop_FailFast(votes_to_process) ==
    IF votes_to_process = << >> \/ DecryptEntry(Head(votes_to_process)) = << >>
    THEN << >>
    ELSE DecryptEntry(Head(votes_to_process))
            \o DecryptLoop_FailFast(Tail(votes_to_process))

RECURSIVE DecryptLoop(_)
DecryptLoop(votes_to_process) ==
    IF votes_to_process = << >>
    THEN << >>
    ELSE DecryptEntry(Head(votes_to_process)) \o DecryptLoop(Tail(votes_to_process))

\* The vote hashes of the entries of a range that the loop decrypts.
DecryptedHashes(votes_to_process) ==
    {e.vote_hash : e \in {x \in Range(votes_to_process) : DecryptEntry(x) # << >>}}

\* A range that leaves out the first entry behind the mark.
StartIndex_SkipsOne(ledger, tally_all) ==
    IF tally_all THEN 0 ELSE ledger.metadata.last_tallied_index + 2

\* A range that starts at the mark, not behind it.
StartIndex_AtMark(ledger, tally_all) ==
    IF tally_all \/ ledger.metadata.last_tallied_index < 0
    THEN 0
    ELSE ledger.metadata.last_tallied_index

\* decrypt_all_votes, lines 153-162: the range of a run.
StartIndex(ledger, tally_all) ==
    IF tally_all THEN 0 ELSE ledger.metadata.last_tallied_index + 1

\* A range that takes the start index for a position counted from one.
VotesToProcess_FromOne(ledger, tally_all) ==
    SubSeq(ledger.votes,
           IF StartIndex(ledger, tally_all) = 0 THEN 1 ELSE StartIndex(ledger, tally_all),
           Len(ledger.votes))

VotesToProcess(ledger, tally_all) ==
    SubSeq(ledger.votes, StartIndex(ledger, tally_all) + 1, Len(ledger.votes))

\* vote_counts is a Python dict, kept in insertion order: a sequence of
\* candidate and count.
RECURSIVE CountOf(_, _)
CountOf(vote_counts, candidate) ==
    IF vote_counts = << >> THEN 0
    ELSE IF Head(vote_counts).candidate = candidate THEN Head(vote_counts).count
    ELSE CountOf(Tail(vote_counts), candidate)

HasKey(vote_counts, candidate) ==
    \E i \in 1..Len(vote_counts) : vote_counts[i].candidate = candidate

\* vote_counts[candidate] = vote_counts.get(candidate, 0) + 1
AddVote(vote_counts, candidate) ==
    IF HasKey(vote_counts, candidate)
    THEN [i \in 1..Len(vote_counts) |->
            IF vote_counts[i].candidate = candidate
            THEN [vote_counts[i] EXCEPT !.count = @ + 1]
            ELSE vote_counts[i]]
    ELSE Append(vote_counts, [candidate |-> candidate, count |-> 1])

RECURSIVE AddVotes(_, _)
AddVotes(vote_counts, votes) ==
    IF votes = << >>
    THEN vote_counts
    ELSE AddVotes(AddVote(vote_counts, Head(votes).candidate), Tail(votes))

RECURSIVE SumCounts(_)
SumCounts(vote_counts) ==
    IF vote_counts = << >> THEN 0
    ELSE Head(vote_counts).count + SumCounts(Tail(vote_counts))

\* The last key of the largest count.
Winner_Last(vote_counts) ==
    IF vote_counts = << >>
    THEN NoField
    ELSE LET best == CHOOSE i \in 1..Len(vote_counts) :
                        /\ \A j \in 1..Len(vote_counts) :
                              vote_counts[j].count <= vote_counts[i].count
                        /\ \A j \in (i + 1)..Len(vote_counts) :
                              vote_counts[j].count < vote_counts[i].count
         IN vote_counts[best].candidate

\* max(vote_counts, key=vote_counts.get): the first key of the largest count.
Winner(vote_counts) ==
    IF vote_counts = << >>
    THEN NoField
    ELSE LET best == CHOOSE i \in 1..Len(vote_counts) :
                        /\ \A j \in 1..Len(vote_counts) :
                              vote_counts[j].count <= vote_counts[i].count
                        /\ \A j \in 1..(i - 1) :
                              vote_counts[j].count < vote_counts[i].count
         IN vote_counts[best].candidate

\* A tally that adds onto the results file whenever there is one.
tally_votes_AlwaysAdds(new_decrypted_votes, incremental) ==
    LET vote_counts == AddVotes(IF resultsFile.exists
                                THEN resultsFile.doc.vote_counts
                                ELSE << >>,
                                new_decrypted_votes)
    IN [vote_counts |-> vote_counts,
        winner |-> Winner(vote_counts),
        total_votes |-> SumCounts(vote_counts),
        tally_type |-> IF incremental THEN "incremental" ELSE "full"]

\* A tally whose total_votes is the number of the new votes also when it
\* adds onto the counts of the results file.
tally_votes_TotalOfNew(new_decrypted_votes, incremental) ==
    LET accumulate == incremental /\ resultsFile.exists
        vote_counts == AddVotes(IF accumulate THEN resultsFile.doc.vote_counts
                                ELSE << >>,
                                new_decrypted_votes)
    IN [vote_counts |-> vote_counts,
        winner |-> Winner(vote_counts),
        total_votes |-> Len(new_decrypted_votes),
        tally_type |-> IF incremental THEN "incremental" ELSE "full"]

\* tally_votes: the results document it writes.
tally_votes(new_decrypted_votes, incremental) ==
    LET accumulate == incremental /\ resultsFile.exists
        vote_counts == AddVotes(IF accumulate THEN resultsFile.doc.vote_counts
                                ELSE << >>,
                                new_decrypted_votes)
    IN [vote_counts |-> vote_counts,
        winner |-> Winner(vote_counts),
        total_votes |-> IF accumulate THEN SumCounts(vote_counts)
                        ELSE Len(new_decrypted_votes),
        tally_type |-> IF incremental THEN "incremental" ELSE "full"]

\* An exit without the finally clause: the flag stays set.
TallyExit_KeepFlag(p, resp) ==
    /\ Finish(p, resp)
    /\ UNCHANGED tallying_in_progress

\* The finally clause of tally_results, with the response.
TallyExit(p, resp) ==
    /\ Finish(p, resp)
    /\ tallying_in_progress' = FALSE

\* A refusal that leaves through the finally clause and resets the flag.
TallyRefuse_Resets(p) ==
    /\ Free(p)
    /\ tallying_in_progress
    /\ Finish(p, Response(409, FALSE, "Tallying already in progress. Please wait.",
                          NoField))
    /\ tallying_in_progress' = FALSE
    /\ UNCHANGED <<ledgerFile, lastLedger, resultsFile, midTally, counted, processed>>

\* tally_results, lines 371-376: the flag is set, the request is refused.
TallyRefuse(p) ==
    /\ Free(p)
    /\ tallying_in_progress
    /\ Finish(p, Response(409, FALSE, "Tallying already in progress. Please wait.",
                          NoField))
    /\ UNCHANGED <<ledgerFile, lastLedger, resultsFile, tallying_in_progress, midTally, counted, processed>>

\* An admission that sets the flag without testing it.
TallyAdmit_NoTest(p, mode) ==
    /\ Free(p)
    /\ resultsFile.doc.total_votes + Cardinality(VoterIds) <= MaxTotal
    /\ tallying_in_progress' = TRUE
    /\ Goto(p, "tally_check",
            [NoLocal EXCEPT !.mode = IF mode = NoField THEN "incremental" ELSE mode])
    /\ UNCHANGED <<ledgerFile, lastLedger, resultsFile, midTally, counted, processed>>

\* An admission that takes a request without a mode for a full tally.
TallyAdmit_DefaultFull(p, mode) ==
    /\ Free(p)
    /\ ~tallying_in_progress
    /\ resultsFile.doc.total_votes + Cardinality(VoterIds) <= MaxTotal
    /\ tallying_in_progress' = TRUE
    /\ Goto(p, "tally_check",
            [NoLocal EXCEPT !.mode = IF mode = NoField THEN "full" ELSE mode])
    /\ UNCHANGED <<ledgerFile, lastLedger, resultsFile, midTally, counted, processed>>

\* tally_results, lines 371-383: the flag is tested and set under
\* tallying_lock; a request without a mode is incremental.  The request's
\* time_lock_seconds is not looked at before decrypt_all_votes sleeps and is
\* drawn there.
TallyAdmit(p, mode) ==
    /\ Free(p)
    /\ ~tallying_in_progress
    /\ resultsFile.doc.total_votes + Cardinality(VoterIds) <= MaxTotal
    /\ tallying_in_progress' = TRUE
    /\ Goto(p, "tally_check",
            [NoLocal EXCEPT !.mode = IF mode = NoField THEN "incremental" ELSE mode])
    /\ UNCHANGED <<ledgerFile, lastLedger, resultsFile, midTally, counted, processed>>

\* A count of new votes that takes the mark for the number of tallied votes.
NewVotesCount_FromMark(ledger) ==
    Len(ledger.votes) - ledger.metadata.last_tallied_index

NewVotesCount(ledger) ==
    Len(ledger.votes) - (ledger.metadata.last_tallied_index + 1)

\* tally_results, lines 386-395: no votes in the ledger.
TallyCheckEmpty(p) ==
    /\ pc[p] = "tally_check"
    /\ Len(load_ledger.votes) = 0
    /\ TallyExit(p, Response(400, FALSE, "No votes in ledger to tally", NoField))
    /\ UNCHANGED <<ledgerFile, lastLedger, resultsFile, midTally, counted, processed>>

\* tally_results, lines 397-401: incremental and nothing after the mark.
TallyCheckNoNew(p) ==
    /\ pc[p] = "tally_check"
    /\ Len(load_ledger.votes) # 0
    /\ local[p].mode = "incremental"
    /\ NewVotesCount(load_ledger) = 0
    /\ TallyExit(p, Response(400, FALSE,
                    "No new votes to tally. All votes have been counted.", NoField))
    /\ UNCHANGED <<ledgerFile, lastLedger, resultsFile, midTally, counted, processed>>

\* A check that lets a full run through whatever the ledger holds.
TallyCheckPass_FullAnyway(p) ==
    /\ pc[p] = "tally_check"
    /\ \/ local[p].mode = "full"
       \/ /\ Len(load_ledger.votes) # 0
          /\ ~(local[p].mode = "incremental" /\ NewVotesCount(load_ledger) = 0)
    /\ Goto(p, "decrypt_load", local[p])
    /\ UNCHANGED <<ledgerFile, lastLedger, resultsFile, tallying_in_progress, midTally, counted, processed>>

TallyCheckPass(p) ==
    /\ pc[p] = "tally_check"
    /\ Len(load_ledger.votes) # 0
    /\ ~(local[p].mode = "incremental" /\ NewVotesCount(load_ledger) = 0)
    /\ Goto(p, "decrypt_load", local[p])
    /\ UNCHANGED <<ledgerFile, lastLedger, resultsFile, tallying_in_progress, midTally, counted, processed>>

FailedToDecrypt ==
    Response(500, FALSE,
             "Failed to decrypt any votes. Check private key and vote format.",
             NoField)

\* decrypt_all_votes, lines 151-175: the ledger is loaded again; an empty
\* range or a key that does not load returns [] and the request fails.
DecryptNothing(p, private_key) ==
    /\ pc[p] = "decrypt_load"
    /\ \/ Len(VotesToProcess(load_ledger, local[p].mode = "full")) = 0
       \/ ~private_key
    /\ TallyExit(p, FailedToDecrypt)
    /\ UNCHANGED <<ledgerFile, lastLedger, resultsFile, midTally, counted, processed>>

\* A run that decrypts its range as soon as it has it, before the sleep.
DecryptLoad_DecryptsFirst(p, private_key, time_lock_seconds) ==
    /\ pc[p] = "decrypt_load"
    /\ private_key
    /\ LET ledger == load_ledger
           tally_all == local[p].mode = "full"
       IN /\ Len(VotesToProcess(ledger, tally_all)) # 0
          /\ Goto(p, "time_lock",
                  [local[p] EXCEPT !.ledger = ledger,
                                   !.votes_to_process = VotesToProcess(ledger, tally_all),
                                   !.start_index = StartIndex(ledger, tally_all),
                                   !.time_lock_seconds = time_lock_seconds,
                                   !.decrypted_votes =
                                       DecryptLoop(VotesToProcess(ledger, tally_all))])
    /\ midTally' = {}
    /\ UNCHANGED <<ledgerFile, lastLedger, resultsFile, tallying_in_progress, counted, processed>>

\* decrypt_all_votes, lines 151-178: the snapshot and the range are fixed,
\* the time lock starts.
DecryptLoad(p, private_key, time_lock_seconds) ==
    /\ pc[p] = "decrypt_load"
    /\ private_key
    /\ LET ledger == load_ledger
           tally_all == local[p].mode = "full"
       IN /\ Len(VotesToProcess(ledger, tally_all)) # 0
          /\ Goto(p, "time_lock",
                  [local[p] EXCEPT !.ledger = ledger,
                                   !.votes_to_process = VotesToProcess(ledger, tally_all),
                                   !.start_index = StartIndex(ledger, tally_all),
                                   !.time_lock_seconds = time_lock_seconds])
    /\ midTally' = {}
    /\ UNCHANGED <<ledgerFile, lastLedger, resultsFile, tallying_in_progress, counted, processed>>

\* time.sleep raises for a negative length; tally_results answers 500.
TimeLockRaise(p) ==
    /\ pc[p] = "time_lock"
    /\ local[p].time_lock_seconds < 0
    /\ TallyExit(p, Response(500, FALSE, "sleep length must be non-negative", NoField))
    /\ midTally' = {}
    /\ UNCHANGED <<ledgerFile, lastLedger, resultsFile, counted, processed>>

\* A failed run that saves the mark all the same.
DecryptFailed_Marks(p) ==
    /\ pc[p] = "time_lock"
    /\ local[p].time_lock_seconds >= 0
    /\ DecryptLoop(local[p].votes_to_process) = << >>
    /\ TallyExit(p, FailedToDecrypt)
    /\ midTally' = {}
    /\ ledgerFile' = JsonFile([local[p].ledger EXCEPT
                                  !.metadata.last_tallied_index = Len(local[p].ledger.votes) - 1])
    /\ lastLedger' = ledgerFile'.doc
    /\ UNCHANGED <<resultsFile, counted, processed>>

\* decrypt_all_votes, lines 179-232 when no entry of the range decrypts:
\* nothing is saved.
DecryptFailed(p) ==
    /\ pc[p] = "time_lock"
    /\ local[p].time_lock_seconds >= 0
    /\ DecryptLoop(local[p].votes_to_process) = << >>
    /\ TallyExit(p, FailedToDecrypt)
    /\ midTally' = {}
    /\ UNCHANGED <<ledgerFile, lastLedger, resultsFile, counted, processed>>

\* A mark one past the last index.
MarkTallied_PastEnd(ledger) ==
    [ledger EXCEPT !.metadata.last_tallied_index = Len(ledger.votes)]

\* A mark at the last entry of the file as it is when the sleep ends.
MarkTallied_Latest(ledger) ==
    [ledger EXCEPT !.metadata.last_tallied_index = Len(load_ledger.votes) - 1]

\* decrypt_all_votes, line 221: the mark is set on the loaded copy.
MarkTallied(ledger) ==
    [ledger EXCEPT !.metadata.last_tallied_index = Len(ledger.votes) - 1]

\* decrypt_all_votes, lines 179-222 up to open(LEDGER_FILE, "w"): the sleep
\* ends, the range is decrypted, the mark is set on the loaded copy.
DecryptDone(p) ==
    /\ pc[p] = "time_lock"
    /\ local[p].time_lock_seconds >= 0
    /\ DecryptLoop(local[p].votes_to_process) # << >>
    /\ OpenForWrite
    /\ Goto(p, "tally_write",
            [local[p] EXCEPT !.decrypted_votes = DecryptLoop(local[p].votes_to_process),
                             !.ledger = MarkTallied(local[p].ledger)])
    /\ UNCHANGED <<resultsFile, tallying_in_progress, midTally, counted, processed>>

\* save_ledger of decrypt_all_votes, line 222: the document is written.
TallyWrite(p) ==
    /\ pc[p] = "tally_write"
    /\ save_ledger(local[p].ledger)
    /\ Goto(p, "tally_votes", local[p])
    /\ midTally' = {}
    /\ UNCHANGED <<resultsFile, tallying_in_progress, counted, processed>>

\* tally_results, lines 421-447: tally_votes reads and writes the results
\* file, the request answers 200, the flag is reset.
TallyVotes(p) ==
    /\ pc[p] = "tally_votes"
    /\ LET incremental == local[p].mode = "incremental"
       IN /\ resultsFile' = [exists |-> TRUE,
                             doc |-> tally_votes(local[p].decrypted_votes, incremental)]
          /\ counted' = IF incremental /\ resultsFile.exists
                        THEN counted \cup DecryptedHashes(local[p].votes_to_process)
                        ELSE DecryptedHashes(local[p].votes_to_process)
    /\ processed' = IF processed.on
                    THEN [processed EXCEPT
                            !.hashes = @ \cup {e.vote_hash : e \in Range(local[p].votes_to_process)}]
                    ELSE processed
    /\ TallyExit(p, Response(200, TRUE, NoField, NoField))
    /\ UNCHANGED <<ledgerFile, lastLedger, midTally>>

(***************************************************************************)
(* Module 4 of result_export_module.py: blockchain-style hash linking      *)
(***************************************************************************)
\* A block hash that leaves the ciphertext out: with it a changed
\* ciphertext is not seen.
BlockHash_NoCiphertext(vote, previous_hash) ==
    sha256(vote.voter_id \o vote.timestamp \o previous_hash)

BlockHash(vote, previous_hash) ==
    sha256(vote.voter_id \o vote.encrypted_vote \o vote.timestamp \o previous_hash)

\* A loop that does not carry the hash of a block to the next one: every
\* entry is linked to the genesis hash.
RECURSIVE LinkVotes_Unchained(_, _, _)
LinkVotes_Unchained(votes, idx, previous_hash) ==
    IF votes = << >>
    THEN << >>
    ELSE LET current_hash == BlockHash(Head(votes), previous_hash)
         IN <<[Head(votes) EXCEPT !.previous_hash = previous_hash,
                                  !.block_hash = current_hash,
                                  !.block_number = idx + 1]>>
            \o LinkVotes_Unchained(Tail(votes), idx + 1, previous_hash)

\* The loop of add_blockchain_style_linking from entry idx (0-based) on.
RECURSIVE LinkVotes(_, _, _)
LinkVotes(votes, idx, previous_hash) ==
    IF votes = << >>
    THEN << >>
    ELSE LET current_hash == BlockHash(Head(votes), previous_hash)
         IN <<[Head(votes) EXCEPT !.previous_hash = previous_hash,
                                  !.block_hash = current_hash,
                                  !.block_number = idx + 1]>>
            \o LinkVotes(Tail(votes), idx + 1, current_hash)

\* A linking that adds to the chain_length it finds: a second run changes
\* the ledger.
add_blockchain_style_linking_Adds(ledger) ==
    LET votes == LinkVotes(ledger.votes, 0, GenesisHash)
    IN [ledger EXCEPT
          !.votes = votes,
          !.blockchain_enabled = TRUE,
          !.chain_length = ledger.chain_length + Len(votes),
          !.latest_block_hash = votes[Len(votes)].block_hash]

add_blockchain_style_linking(ledger) ==
    LET votes == LinkVotes(ledger.votes, 0, GenesisHash)
    IN [ledger EXCEPT
          !.votes = votes,
          !.blockchain_enabled = TRUE,
          !.chain_length = Len(votes),
          !.latest_block_hash = votes[Len(votes)].block_hash]

\* The file does not parse (json.load raises) or holds no votes: the script
\* returns without writing.
LinkNothing(p) ==
    /\ Free(p)
    /\ \/ ledgerFile.kind # "json"
       \/ ledgerFile.doc.votes = << >>
    /\ Finish(p, Response(0, FALSE,
                          IF ledgerFile.kind # "json"
                          THEN "Error adding blockchain linking"
                          ELSE "No votes to link", NoField))
    /\ UNCHANGED <<ledgerFile, lastLedger, resultsFile, tallying_in_progress, midTally, counted, processed>>

\* add_blockchain_style_linking, lines 159-187: the file is read and the
\* votes are linked on the loaded copy.
LinkLoad(p) ==
    /\ Free(p)
    /\ ledgerFile.kind = "json"
    /\ ledgerFile.doc.votes # << >>
    /\ Goto(p, "link_open",
            [NoLocal EXCEPT !.ledger = add_blockchain_style_linking(ledgerFile.doc)])
    /\ UNCHANGED <<ledgerFile, lastLedger, resultsFile, tallying_in_progress, midTally, counted, processed>>

\* add_blockchain_style_linking, line 189: open(ledger_file, "w").
LinkOpen(p) ==
    /\ pc[p] = "link_open"
    /\ OpenForWrite
    /\ Goto(p, "link_write", local[p])
    /\ UNCHANGED <<resultsFile, tallying_in_progress, midTally, counted, processed>>

\* add_blockchain_style_linking, lines 190-196: the document is written.
LinkWrite(p) ==
    /\ pc[p] = "link_write"
    /\ save_ledger(local[p].ledger)
    /\ Finish(p, Response(0, TRUE, NoField, NoField))
    /\ UNCHANGED <<resultsFile, tallying_in_progress, midTally, counted, processed>>

\* The loop of verify_blockchain_integrity from entry idx (0-based) on: the
\* value returned, the number of the block named in the message printed (0
\* when all blocks pass) and the message.
RECURSIVE VerifyVotes(_, _, _)
VerifyVotes(votes, idx, previous_hash) ==
    IF votes = << >>
    THEN [valid |-> TRUE, block |-> 0,
          message |-> "Blockchain integrity verified"]
    ELSE IF Head(votes).previous_hash # previous_hash
    THEN [valid |-> FALSE, block |-> idx + 1,
          message |-> "Block " \o ToString(idx + 1) \o ": Previous hash mismatch!"]
    ELSE LET calculated_hash == BlockHash(Head(votes), previous_hash)
         IN IF Head(votes).block_hash # calculated_hash
            THEN [valid |-> FALSE, block |-> idx + 1,
                  message |-> "Block " \o ToString(idx + 1)
                              \o ": Block hash mismatch! Tampering detected!"]
            ELSE VerifyVotes(Tail(votes), idx + 1, calculated_hash)

\* verify_blockchain_integrity on the ledger file f: json.load raising is
\* caught and gives False, a ledger without blockchain_enabled gives False
\* before any block is looked at.
verify_blockchain_integrity(f) ==
    IF f.kind # "json"
    THEN [valid |-> FALSE, block |-> 0, message |-> "Error verifying blockchain"]
    ELSE IF ~f.doc.blockchain_enabled
    THEN [valid |-> FALSE, block |-> 0, message |-> "Ledger is not blockchain-linked"]
    ELSE VerifyVotes(f.doc.votes, 0, GenesisHash)

\* A run of verify_blockchain_integrity: the file is read once and nothing
\* is written.
VerifyChain(p) ==
    /\ Free(p)
    /\ LET r == verify_blockchain_integrity(ledgerFile)
       IN Finish(p, Response(0, r.valid, r.message, NoField))
    /\ UNCHANGED <<ledgerFile, lastLedger, resultsFile, tallying_in_progress, midTally, counted, processed>>

\* The ledger file is edited outside the service between two operations:
\* the encrypted_vote of entry i (1-based) is replaced by another
\* ciphertext.  This is the tampering verify_blockchain_integrity looks for.
Tamper(i, encrypted_vote) ==
    /\ \A p \in Procs : pc[p] = "idle"
    /\ ledgerFile.kind = "json"
    /\ i \in 1..Len(ledgerFile.doc.votes)
    /\ ledgerFile.doc.votes[i].encrypted_vote # encrypted_vote
    /\ ledgerFile' = JsonFile([ledgerFile.doc EXCEPT
                                 !.votes[i].encrypted_vote = encrypted_vote])
    /\ lastLedger' = ledgerFile'.doc
    /\ response' = NoResponse
    /\ UNCHANGED <<resultsFile, tallying_in_progress, pc, local, midTally, counted, processed>>

(***************************************************************************)
(* The GET routes of storage_service.py                                    *)
(***************************************************************************)
\* A pending count taken from the mark itself, one too many.
PendingVotes_FromMark(ledger) ==
    Len(ledger.votes) - ledger.metadata.last_tallied_index

\* total_votes - (last_tallied + 1), with total_votes = len(ledger["votes"]).
PendingVotes(ledger) ==
    Len(ledger.votes) - (ledger.metadata.last_tallied_index + 1)

\* GET /tally_status: the ledger is loaded and the body is built from it
\* and from the flag.
TallyStatus(p) ==
    /\ Free(p)
    /\ LET ledger == load_ledger
       IN Finish(p, [Response(200, FALSE, NoField, NoField) EXCEPT
                       !.body = [NoBody EXCEPT
                           !.route = "tally_status",
                           !.tallying_in_progress = tallying_in_progress,
                           !.total_votes = Len(ledger.votes),
                           !.tallied_votes = ledger.metadata.last_tallied_index + 1,
                           !.new_votes_pending = PendingVotes(ledger)]])
    /\ UNCHANGED <<ledgerFile, lastLedger, resultsFile, tallying_in_progress, midTally, counted, processed>>

\* GET /get_results with no results file: 404.
GetResultsMissing(p) ==
    /\ Free(p)
    /\ ~resultsFile.exists
    /\ Finish(p, [Response(404, FALSE,
                           "No results available yet. Run /tally_results first.",
                           NoField)
                    EXCEPT !.body.route = "get_results"])
    /\ UNCHANGED <<ledgerFile, lastLedger, resultsFile, tallying_in_progress, midTally, counted, processed>>

\* GET /get_results, lines 469-471: the results file is read.
GetResultsOpen(p) ==
    /\ Free(p)
    /\ resultsFile.exists
    /\ Goto(p, "results_ledger", [NoLocal EXCEPT !.results = resultsFile.doc])
    /\ UNCHANGED <<ledgerFile, lastLedger, resultsFile, tallying_in_progress, midTally, counted, processed>>

\* GET /get_results, lines 474-484: the ledger is loaded and the body is
\* built.
GetResultsReply(p) ==
    /\ pc[p] = "results_ledger"
    /\ LET ledger == load_ledger
       IN Finish(p, [Response(200, TRUE, NoField, NoField) EXCEPT
                       !.body = [NoBody EXCEPT
                           !.route = "get_results",
                           !.results = local[p].results,
                           !.pending_votes = PendingVotes(ledger),
                           !.tallying_in_progress = tallying_in_progress]])
    /\ UNCHANGED <<ledgerFile, lastLedger, resultsFile, tallying_in_progress, midTally, counted, processed>>

\* A view that writes back what it loaded: a file that did not parse is
\* replaced by the default ledger.
ViewLedger_Repairs(p) ==
    /\ Free(p)
    /\ ledgerFile' = JsonFile(load_ledger)
    /\ Finish(p, [Response(200, FALSE, NoField, NoField) EXCEPT
                    !.body = [NoBody EXCEPT !.route = "ledger",
                                            !.ledger = load_ledger]])
    /\ UNCHANGED <<lastLedger, resultsFile, tallying_in_progress, midTally, counted, processed>>

\* GET /ledger: the ledger as load_ledger returns it.
ViewLedger(p) ==
    /\ Free(p)
    /\ Finish(p, [Response(200, FALSE, NoField, NoField) EXCEPT
                    !.body = [NoBody EXCEPT !.route = "ledger",
                                            !.ledger = load_ledger]])
    /\ UNCHANGED <<ledgerFile, lastLedger, resultsFile, tallying_in_progress, midTally, counted, processed>>

(***************************************************************************)
(* Specification                                                           *)
(***************************************************************************)
Init ==
    /\ ledgerFile = JsonFile(EmptyLedger)
    /\ resultsFile = NoResultsFile
    /\ tallying_in_progress = FALSE
    /\ pc = [p \in Procs |-> "idle"]
    /\ local = [p \in Procs |-> NoLocal]
    /\ response = NoResponse
    /\ midTally = {}
    /\ counted = {}
    /\ lastLedger = EmptyLedger
    /\ processed = [on |-> FALSE, hashes |-> {}]

\* The steps of the service with the submissions B.
StoreStep(p, B) ==
    \/ StoreVoteMissing(p)
    \/ \E v \in VoterIds : StoreVoteDuplicate(p, v)
    \/ \E b \in B, t \in Timestamps : StoreVoteLoad(p, b[1], b[2], t)
    \/ StoreVoteOpen(p)
    \/ StoreVoteWrite(p)

TallyStep(p) ==
    \/ \E m \in ModeInputs : TallyAdmit(p, m)
    \/ TallyCheckEmpty(p)
    \/ TallyCheckNoNew(p)
    \/ TallyCheckPass(p)
    \/ \E k \in BOOLEAN : DecryptNothing(p, k)
    \/ \E k \in BOOLEAN, t \in TimeLockInputs : DecryptLoad(p, k, t)
    \/ TimeLockRaise(p)
    \/ DecryptFailed(p)
    \/ DecryptDone(p)
    \/ TallyWrite(p)
    \/ TallyVotes(p)

LinkStep(p) ==
    \/ LinkNothing(p)
    \/ LinkLoad(p)
    \/ LinkOpen(p)
    \/ LinkWrite(p)

\* The threaded service: requests are handled concurrently.
Next ==
    \E p \in Procs :
        \/ StoreStep(p, Ballots)
        \/ TallyStep(p)
        \/ TallyRefuse(p)

Spec == Init /\ [][Next]_vars

\* One operation at a time: a request is sent when the one before it has
\* been answered, and the export script runs between requests.
SeqNext ==
    \/ StoreStep(1, AllBallots)
    \/ TallyStep(1)
    \/ LinkStep(1)

SeqSpec == Init /\ [][SeqNext]_vars

\* The steps of an admitted tally run.  Each handler thread keeps running:
\* the sleep ends, file reads and writes return.
TallyRun(p) ==
    \/ TallyCheckEmpty(p)
    \/ TallyCheckNoNew(p)
    \/ TallyCheckPass(p)
    \/ \E k \in BOOLEAN : DecryptNothing(p, k)
    \/ \E k \in BOOLEAN, t \in TimeLockInputs : DecryptLoad(p, k, t)
    \/ TimeLockRaise(p)
    \/ DecryptFailed(p)
    \/ DecryptDone(p)
    \/ TallyWrite(p)
    \/ TallyVotes(p)

FairSpec == Spec /\ \A p \in Procs : WF_vars(TallyRun(p))

\* Incremental runs only, one request at a time and from no results file,
\* over three voters and every ciphertext.
BatchVoterIds == VoterIds \cup {"V3"}
BatchBallots == BatchVoterIds \X Ciphertexts
IncrementalModes == {NoField, "incremental"}

IncNext ==
    \/ StoreStep(1, BatchBallots)
    \/ \E m \in IncrementalModes : TallyAdmit(1, m)
    \/ TallyRun(1)

IncSpec == Init /\ [][IncNext]_vars

\* Every mode, one request at a time, over three voters and every ciphertext.
BatchNext ==
    \/ StoreStep(1, BatchBallots)
    \/ TallyStep(1)

BatchSpec == Init /\ [][BatchNext]_vars

\* The service under concurrent requests, with the history of the ranges of
\* the successful tally runs kept.
TrackInit ==
    /\ ledgerFile = JsonFile(EmptyLedger)
    /\ resultsFile = NoResultsFile
    /\ tallying_in_progress = FALSE
    /\ pc = [p \in Procs |-> "idle"]
    /\ local = [p \in Procs |-> NoLocal]
    /\ response = NoResponse
    /\ midTally = {}
    /\ counted = {}
    /\ lastLedger = EmptyLedger
    /\ processed = [on |-> TRUE, hashes |-> {}]

TrackSpec == TrackInit /\ [][Next]_vars

\* The export script and the store over three voters, one operation at a
\* time, with the ledger file open to edits between them.
ChainBallots == BatchVoterIds \X {"encA"}
ChainCiphertexts == {"encA", "encX"}

ChainNext ==
    \/ StoreStep(1, ChainBallots)
    \/ LinkStep(1)
    \/ VerifyChain(1)
    \/ \E i \in 1..MaxTotal, c \in ChainCiphertexts : Tamper(i, c)

ChainSpec == Init /\ [][ChainNext]_vars

\* The read operations: the GET routes and the verification of the chain.
ReadStep(p) ==
    \/ TallyStatus(p)
    \/ GetResultsMissing(p)
    \/ GetResultsOpen(p)
    \/ GetResultsReply(p)
    \/ ViewLedger(p)
    \/ VerifyChain(p)

\* The threaded service with its read routes, and the export script run
\* beside it, over two submissions.
ReadBallots == {<<"V1", "encA">>, <<"V2", "junk">>}

ReadNext ==
    \E p \in Procs :
        \/ StoreStep(p, ReadBallots)
        \/ TallyStep(p)
        \/ TallyRefuse(p)
        \/ LinkStep(p)
        \/ ReadStep(p)

ReadSpec == Init /\ [][ReadNext]_vars

\* The store and the export script, one operation at a time, over voter ids
\* and ciphertexts of which one is the other with a character more: the
\* request's strings are stored as they come.
HashVoterIds == {"V1", "V11", "V2"}
HashCiphertexts == {"enc", "1enc"}
HashBallots == HashVoterIds \X HashCiphertexts

HashNext ==
    \/ StoreStep(1, HashBallots)
    \/ LinkStep(1)

HashSpec == Init /\ [][HashNext]_vars

(***************************************************************************)
(* Properties                                                              *)
(***************************************************************************)
TallyLabels ==
    {"tally_check", "decrypt_load", "time_lock", "tally_write", "tally_votes"}

StoreLabels == {"store_open", "store_write"}

Hashes(ledger) == {ledger.votes[i].vote_hash : i \in 1..Len(ledger.votes)}

StoreSuccess(r) == r.code = 200 /\ r.vote_hash # NoField

\* C1: a vote accepted between a tally run's snapshot and its write is in
\* the ledger after that write, behind the mark the run wrote.
C1_MidTallyVoteKept ==
    [][\A p \in Procs :
          (pc[p] = "tally_write" /\ pc'[p] = "tally_votes") =>
             \A h \in midTally :
                \E i \in 1..Len(load_ledger'.votes) :
                   /\ load_ledger'.votes[i].vote_hash = h
                   /\ i - 1 > load_ledger'.metadata.last_tallied_index]_vars

\* C2: an incremental run that adds onto the counts of an incremental run
\* has selected no entry that is counted in them already.
C2_NoDoubleCount ==
    \A p \in Procs :
        (/\ pc[p] = "tally_votes"
         /\ local[p].mode = "incremental"
         /\ resultsFile.exists
         /\ resultsFile.doc.tally_type = "incremental")
        => DecryptedHashes(local[p].votes_to_process) \cap counted = {}

\* C3: no two entries of the ledger a reader loads have the same voter_id.
C3_UniqueVoters ==
    \A i, j \in 1..Len(load_ledger.votes) :
        i # j => load_ledger.votes[i].voter_id # load_ledger.votes[j].voter_id

\* One submission for a voter has been answered with success and is in the
\* ledger while another submission for the same voter is about to be written.
C3_Witness ==
    /\ StoreSuccess(response)
    /\ HasVoted(load_ledger, response.voter_id)
    /\ \E p \in Procs : pc[p] = "store_write" /\ local[p].voter_id = response.voter_id

\* C4 (one request at a time): a submission passes the duplicate check only
\* for a voter that is not in the ledger, it is answered with the hash of the
\* entry that is then the last of the ledger, one entry longer; a submission
\* for a voter in the ledger is answered "Voter has already cast a vote" and
\* leaves the file as it is.
C4_StoreStep ==
    /\ (pc[1] = "idle" /\ pc'[1] = "store_open") =>
          /\ \A i \in 1..Len(load_ledger.votes) :
                load_ledger.votes[i].voter_id # local'[1].voter_id
          /\ Len(local'[1].ledger.votes) = Len(load_ledger.votes) + 1
          /\ local'[1].ledger.metadata.total_votes
                = load_ledger.metadata.total_votes + 1
    /\ (pc[1] = "store_open" /\ pc'[1] = "store_write") =>
          /\ SubSeq(local[1].ledger.votes, 1, Len(local[1].ledger.votes) - 1)
                = load_ledger.votes
    /\ (pc[1] = "store_write" /\ pc'[1] = "idle") =>
          LET n == Len(load_ledger'.votes)
          IN /\ load_ledger' = local[1].ledger
             /\ StoreSuccess(response')
             /\ load_ledger'.votes[n].voter_id = response'.voter_id
             /\ load_ledger'.votes[n].vote_hash = response'.vote_hash
             /\ response'.vote_hash
                   = sha256(load_ledger'.votes[n].voter_id
                            \o load_ledger'.votes[n].encrypted_vote
                            \o load_ledger'.votes[n].timestamp)
    /\ (pc[1] = "idle" /\ pc'[1] = "idle" /\ response'.voter_id # NoField) =>
          /\ \E i \in 1..Len(load_ledger.votes) :
                load_ledger.votes[i].voter_id = response'.voter_id
          /\ response'.code = 400
          /\ response'.error = "Voter has already cast a vote"
          /\ ledgerFile' = ledgerFile

C4_AppendThenDuplicate == [][C4_StoreStep]_vars

\* The second of two submissions of one voter has been refused and the
\* ledger holds one vote.
C4_Witness ==
    /\ response.code = 400
    /\ response.error = "Voter has already cast a vote"
    /\ HasVoted(load_ledger, response.voter_id)
    /\ load_ledger.metadata.total_votes = 1

\* C5: when two submissions are answered with success one right after the
\* other and the file holds a document, they are for different voters and
\* both entries are in the ledger.
C5_NoLostAppend ==
    [][(/\ StoreSuccess(response)
        /\ StoreSuccess(response')
        /\ response'.proc # response.proc
        /\ ledgerFile'.kind = "json") =>
          /\ response'.voter_id # response.voter_id
          /\ {response.vote_hash, response'.vote_hash} \subseteq Hashes(load_ledger')
          /\ load_ledger'.metadata.total_votes >= 2]_vars

\* C6: every entry of a document that was written is, with the same
\* voter_id, encrypted_vote, timestamp and vote_hash, at the same index of
\* every document written later.
SameEntry(a, b) ==
    /\ a.voter_id = b.voter_id
    /\ a.encrypted_vote = b.encrypted_vote
    /\ a.timestamp = b.timestamp
    /\ a.vote_hash = b.vote_hash

C6_AppendOnly ==
    [][/\ Len(lastLedger'.votes) >= Len(lastLedger.votes)
       /\ \A i \in 1..Len(lastLedger.votes) :
             i <= Len(lastLedger'.votes)
                => SameEntry(lastLedger.votes[i], lastLedger'.votes[i])]_vars

\* C7: the mark of a document that is written is not below the mark of the
\* document written before it.
C7_MarkMonotone ==
    [][lastLedger'.metadata.last_tallied_index
          >= lastLedger.metadata.last_tallied_index]_vars

\* C8: in the ledger a reader loads, -1 <= last_tallied_index < total_votes,
\* and the mark of an empty ledger is -1.
C8_MarkInRange ==
    LET m == load_ledger.metadata
    IN /\ -1 <= m.last_tallied_index
       /\ m.last_tallied_index < m.total_votes
       /\ (load_ledger.votes = << >> => m.last_tallied_index = -1)

\* A tally run has marked the ledger whole and a vote was stored after it.
C8_Witness ==
    /\ ledgerFile.kind = "json"
    /\ ledgerFile.doc.metadata.last_tallied_index = 0
    /\ ledgerFile.doc.metadata.total_votes = 2

\* C9: at most one tally run is active; while the flag is set no request is
\* admitted, and the step that answers 409 is taken with the flag set and
\* changes neither the files nor the flag.
C9_OneTallyRun ==
    /\ [](Cardinality({p \in Procs : pc[p] \in TallyLabels}) <= 1)
    /\ [][/\ tallying_in_progress =>
                \A p \in Procs : pc[p] = "idle" => pc'[p] # "tally_check"
          /\ response'.code = 409 =>
                /\ tallying_in_progress
                /\ UNCHANGED <<ledgerFile, resultsFile, tallying_in_progress>>
                /\ \A p \in Procs : pc'[p] \in TallyLabels <=> pc[p] \in TallyLabels]_vars

\* A request has been refused while a run is between its snapshot and its write.
C9_Witness ==
    /\ response.code = 409
    /\ tallying_in_progress
    /\ \E p \in Procs : pc[p] = "time_lock"

\* C10: the flag is set exactly while a tally run is active, so it is reset
\* on every exit, and a run that is active ends.
C10_FlagReleased ==
    /\ [](tallying_in_progress <=> \E p \in Procs : pc[p] \in TallyLabels)
    /\ (tallying_in_progress ~> ~tallying_in_progress)

\* A run has ended by an exception and the flag is reset.
C10_Witness ==
    /\ response.code = 500
    /\ response.error = "sleep length must be non-negative"
    /\ ~tallying_in_progress

\* C11: an incremental run that finds a ledger with votes and none after the
\* mark (last_tallied_index = total_votes - 1) is answered 400 "No new votes
\* to tally" and changes neither the ledger file nor the results file.
C11_NoNewVotes ==
    [][\A p \in Procs :
          (/\ pc[p] = "tally_check"
           /\ pc'[p] # "tally_check"
           /\ local[p].mode = "incremental"
           /\ load_ledger.votes # << >>
           /\ load_ledger.metadata.last_tallied_index
                 = load_ledger.metadata.total_votes - 1)
          => /\ response'.proc = p
             /\ response'.code = 400
             /\ response'.error = "No new votes to tally. All votes have been counted."
             /\ ledgerFile' = ledgerFile
             /\ resultsFile' = resultsFile
             /\ lastLedger' = lastLedger]_vars

\* An incremental request has been refused for want of new votes after a
\* full run set the mark.
C11_Witness ==
    /\ response.code = 400
    /\ response.error = "No new votes to tally. All votes have been counted."
    /\ resultsFile.exists
    /\ resultsFile.doc.tally_type = "full"
    /\ load_ledger.metadata.last_tallied_index = Len(load_ledger.votes) - 1

\* The results a single full run writes for a ledger: the whole ledger is
\* decrypted and tallied from nothing.
FullTally(ledger) == tally_votes(DecryptLoop(ledger.votes), FALSE)

\* C12 (incremental runs only, one request at a time, no results file at the
\* start): when no request is in progress and the mark is at the last entry
\* of the ledger, the persisted vote_counts and winner are those of a single
\* full tally of the ledger.
C12_IncrementalIsFull ==
    (/\ pc[1] = "idle"
     /\ resultsFile.exists
     /\ load_ledger.votes # << >>
     /\ load_ledger.metadata.last_tallied_index = Len(load_ledger.votes) - 1)
    => /\ resultsFile.doc.vote_counts = FullTally(load_ledger).vote_counts
       /\ resultsFile.doc.winner = FullTally(load_ledger).winner

\* Votes for A, A and B have been tallied incrementally: A 2, B 1, winner A.
C12_Witness ==
    /\ pc[1] = "idle"
    /\ Len(load_ledger.votes) = 3
    /\ load_ledger.votes[1].encrypted_vote = "encA"
    /\ load_ledger.votes[2].encrypted_vote = "encA"
    /\ load_ledger.votes[3].encrypted_vote = "encB"
    /\ load_ledger.metadata.last_tallied_index = 2
    /\ Cardinality(counted) = 3
    /\ resultsFile.doc.vote_counts
          = <<[candidate |-> "A", count |-> 2], [candidate |-> "B", count |-> 1]>>
    /\ resultsFile.doc.winner = "A"

\* The candidates of the ballots.
Candidates == {"A", "B"}

\* An entry decrypts and parses when its ciphertext is one of the key and its
\* text has the three fields; the candidate is the second field.
Decrypts(entry) == Len(Plaintext(entry.encrypted_vote)) = 3

VotesFor(votes, candidate) ==
    Cardinality({i \in 1..Len(votes) :
                    /\ Decrypts(votes[i])
                    /\ Plaintext(votes[i].encrypted_vote)[2] = candidate})

DecryptedFor(decrypted_votes, candidate) ==
    Cardinality({i \in 1..Len(decrypted_votes) :
                    decrypted_votes[i].candidate = candidate})

\* The counts a run adds onto: those of the results file for an incremental
\* run that finds one, none otherwise.
PriorCount(p, candidate) ==
    IF local[p].mode = "incremental" /\ resultsFile.exists
    THEN CountOf(resultsFile.doc.vote_counts, candidate)
    ELSE 0

\* C13 (one request at a time): a run whose range holds an entry that
\* decrypts is not ended by the entries that fail; it decrypts every entry
\* of the range that decrypts, once, and no other; it sets the mark to the
\* last index of the ledger, behind the failing entries too; and it adds each
\* decrypted entry to its candidate's count once.
C13_Step ==
    /\ (/\ pc[1] = "time_lock"
        /\ pc'[1] # "time_lock"
        /\ local[1].time_lock_seconds >= 0
        /\ \E i \in 1..Len(local[1].votes_to_process) :
              Decrypts(local[1].votes_to_process[i]))
       => /\ pc'[1] = "tally_write"
          /\ \A c \in Candidates :
                DecryptedFor(local'[1].decrypted_votes, c)
                   = VotesFor(local[1].votes_to_process, c)
          /\ Len(local'[1].decrypted_votes)
                = Cardinality({i \in 1..Len(local[1].votes_to_process) :
                                  Decrypts(local[1].votes_to_process[i])})
    /\ (pc[1] = "tally_write" /\ pc'[1] # "tally_write")
       => /\ pc'[1] = "tally_votes"
          /\ load_ledger'.votes = local[1].ledger.votes
          /\ load_ledger'.metadata.last_tallied_index
                = local[1].start_index + Len(local[1].votes_to_process) - 1
    /\ (pc[1] = "tally_votes" /\ pc'[1] # "tally_votes")
       => /\ response'.code = 200
          /\ \A c \in Candidates :
                CountOf(resultsFile'.doc.vote_counts, c)
                   = PriorCount(1, c) + VotesFor(local[1].votes_to_process, c)

C13_PartialFailure == [][C13_Step]_vars

\* A run over three entries, the second of which does not decrypt, has
\* decrypted two votes and written the mark 2.
C13_Witness ==
    /\ pc[1] = "tally_votes"
    /\ Len(local[1].votes_to_process) = 3
    /\ Decrypts(local[1].votes_to_process[1])
    /\ local[1].votes_to_process[2].encrypted_vote = "junk"
    /\ Decrypts(local[1].votes_to_process[3])
    /\ Len(local[1].decrypted_votes) = 2
    /\ load_ledger.metadata.last_tallied_index = 2

\* C14 (one request at a time): a run whose range is not empty and holds no
\* entry that decrypts is answered 500 "Failed to decrypt any votes", leaves
\* the ledger file (the mark with it) and the results file as they are, and
\* the range of the next incremental run starts with the same entries.  The
\* same holds when the private key does not load.
C14_Step ==
    /\ (/\ pc[1] = "time_lock"
        /\ pc'[1] # "time_lock"
        /\ local[1].time_lock_seconds >= 0
        /\ local[1].votes_to_process # << >>
        /\ \A i \in 1..Len(local[1].votes_to_process) :
              ~Decrypts(local[1].votes_to_process[i]))
       => /\ response'.code = 500
          /\ response'.error = FailedToDecrypt.error
          /\ ledgerFile' = ledgerFile
          /\ resultsFile' = resultsFile
          /\ VotesToProcess(load_ledger', FALSE) = local[1].votes_to_process
    /\ (/\ pc[1] \in {"decrypt_load", "time_lock"}
        /\ response'.error = FailedToDecrypt.error)
       => /\ response'.code = 500
          /\ ledgerFile' = ledgerFile
          /\ resultsFile' = resultsFile
          /\ load_ledger'.metadata.last_tallied_index
                = load_ledger.metadata.last_tallied_index

C14_TallyFailed == [][C14_Step]_vars

\* After a run that counted a vote, a run over an entry that does not
\* decrypt has failed; the mark is before that entry.
C14_Witness ==
    /\ response.code = 500
    /\ response.error = FailedToDecrypt.error
    /\ resultsFile.exists
    /\ Len(load_ledger.votes) = 2
    /\ load_ledger.metadata.last_tallied_index = 0
    /\ ~Decrypts(load_ledger.votes[2])

\* The place of the first vote for a candidate in a list of decrypted votes.
FirstVote(decrypted_votes, candidate) ==
    CHOOSE i \in 1..Len(decrypted_votes) :
        /\ decrypted_votes[i].candidate = candidate
        /\ \A j \in 1..(i - 1) : decrypted_votes[j].candidate # candidate

\* The winner of persisted results has a count no other count exceeds, and
\* every key before it has a smaller count.
WinnerIsFirstMax(results) ==
    \E w \in 1..Len(results.vote_counts) :
        /\ results.vote_counts[w].candidate = results.winner
        /\ \A j \in 1..Len(results.vote_counts) :
              results.vote_counts[j].count <= results.vote_counts[w].count
        /\ \A j \in 1..(w - 1) :
              results.vote_counts[j].count < results.vote_counts[w].count

\* The keys of the counts a run writes: those of the counts it adds onto, in
\* their order, then the candidates new to them in the order of their first
\* vote among the entries the run decrypted.
AggregationOrder(p) ==
    LET old == IF local[p].mode = "incremental" /\ resultsFile.exists
               THEN resultsFile.doc.vote_counts
               ELSE << >>
        new == resultsFile'.doc.vote_counts
        votes == local[p].decrypted_votes
    IN /\ Len(new) >= Len(old)
       /\ \A i \in 1..Len(old) : new[i].candidate = old[i].candidate
       /\ \A i, j \in 1..Len(new) : i # j => new[i].candidate # new[j].candidate
       /\ \A i \in (Len(old) + 1)..Len(new) :
             \E k \in 1..Len(votes) : votes[k].candidate = new[i].candidate
       /\ \A i, j \in (Len(old) + 1)..Len(new) :
             i < j => FirstVote(votes, new[i].candidate)
                         < FirstVote(votes, new[j].candidate)

\* C15 (one request at a time): the persisted winner is the first key, in
\* the order of the persisted vote_counts, of the largest count; and that
\* order is the aggregation order.
C15_WinnerFirstMax ==
    /\ [](resultsFile.exists => WinnerIsFirstMax(resultsFile.doc))
    /\ [][(pc[1] = "tally_votes" /\ pc'[1] # "tally_votes")
             => AggregationOrder(1)]_vars

\* A tie that the order of the prior counts decides: B was counted before A
\* although A's entry is the first of the ledger, and B is the winner.
C15_Witness ==
    /\ resultsFile.exists
    /\ resultsFile.doc.tally_type = "incremental"
    /\ resultsFile.doc.vote_counts
          = <<[candidate |-> "B", count |-> 1], [candidate |-> "A", count |-> 1]>>
    /\ resultsFile.doc.winner = "B"
    /\ load_ledger.votes # << >>
    /\ load_ledger.votes[1].encrypted_vote = "encA"

\* The keys of vote_counts are the candidates with a count, once each.
KeysAreCounted(vote_counts) ==
    /\ \A i \in 1..Len(vote_counts) :
          vote_counts[i].candidate \in Candidates /\ vote_counts[i].count > 0
    /\ \A i, j \in 1..Len(vote_counts) :
          i # j => vote_counts[i].candidate # vote_counts[j].candidate

\* C16: the vote_counts a full run writes are, candidate by candidate, the
\* numbers of entries of the whole ledger it loaded that decrypt to the
\* candidate, whatever the results file held before.
C16_FullReplaces ==
    [][\A p \in Procs :
          (pc[p] = "tally_votes" /\ pc'[p] # "tally_votes" /\ local[p].mode = "full")
          => /\ response'.code = 200
             /\ resultsFile'.exists
             /\ KeysAreCounted(resultsFile'.doc.vote_counts)
             /\ \A c \in Candidates :
                   CountOf(resultsFile'.doc.vote_counts, c)
                      = VotesFor(local[p].ledger.votes, c)]_vars

\* A full run over a ledger of two votes that decrypt has been answered 200
\* and the results hold one vote for A and one for B.
C16_Witness ==
    /\ response.code = 200
    /\ resultsFile.exists
    /\ resultsFile.doc.tally_type = "full"
    /\ resultsFile.doc.total_votes = 2
    /\ CountOf(resultsFile.doc.vote_counts, "A") = 1
    /\ CountOf(resultsFile.doc.vote_counts, "B") = 1

\* The entries of the ledger a run loaded that are behind the mark it found.
AfterOldMark(p) ==
    SubSeq(local[p].ledger.votes, local[p].start_index + 1,
           Len(local[p].ledger.votes))

\* C17: the vote_counts an incremental run writes are, candidate by
\* candidate, the count the results file held (0 without a file or a key)
\* plus the number of entries behind the old mark that decrypt to the
\* candidate.
C17_IncrementalAdds ==
    [][\A p \in Procs :
          (/\ pc[p] = "tally_votes"
           /\ pc'[p] # "tally_votes"
           /\ local[p].mode = "incremental")
          => /\ response'.code = 200
             /\ resultsFile'.exists
             /\ KeysAreCounted(resultsFile'.doc.vote_counts)
             /\ local[p].start_index = Len(local[p].ledger.votes)
                                         - Len(local[p].votes_to_process)
             /\ \A c \in Candidates :
                   CountOf(resultsFile'.doc.vote_counts, c)
                      = (IF resultsFile.exists
                         THEN CountOf(resultsFile.doc.vote_counts, c)
                         ELSE 0)
                        + VotesFor(AfterOldMark(p), c)]_vars

\* An incremental run has been answered 200: the results are incremental
\* and hold two votes, and the mark is at the second entry.
C17_Witness ==
    /\ response.code = 200
    /\ resultsFile.exists
    /\ resultsFile.doc.tally_type = "incremental"
    /\ resultsFile.doc.total_votes = 2
    /\ load_ledger.metadata.last_tallied_index = 1
    /\ Cardinality(counted) = 2

\* C18: the mark a run writes is the index of the last entry of the ledger
\* it loaded, the last of its range, in either mode; the document it writes
\* holds the entries it loaded and no entry stored since.
C18_MarkAtSnapshotEnd ==
    [][\A p \in Procs :
          (pc[p] = "tally_write" /\ pc'[p] # "tally_write")
          => /\ pc'[p] = "tally_votes"
             /\ local[p].ledger.metadata.last_tallied_index
                   = local[p].start_index + Len(local[p].votes_to_process) - 1
             /\ ledgerFile'.kind = "json" =>
                   /\ load_ledger'.metadata.last_tallied_index
                         = local[p].start_index + Len(local[p].votes_to_process) - 1
                   /\ load_ledger'.metadata.last_tallied_index
                         < Len(load_ledger'.votes)
                   /\ Len(load_ledger'.votes)
                         = local[p].start_index + Len(local[p].votes_to_process)]_vars

\* A run has written the mark 0 for the one entry it loaded while the store
\* of a second vote is about to write.
C18_Witness ==
    \E p, q \in Procs :
        /\ pc[p] = "tally_votes"
        /\ ledgerFile.kind = "json"
        /\ load_ledger.metadata.last_tallied_index = 0
        /\ pc[q] = "store_write"
        /\ Len(local[q].ledger.votes) = 2

\* C19: the ledger a reader loads, at any moment, is the last document that
\* was written: no reader finds the file empty, cut short or mixed.
C19_AtomicWrites == load_ledger = lastLedger

\* C20: while the flag is set, a submission for a voter that the ledger does
\* not hold is taken, and a store that has begun goes on to open and to
\* write the file; a submission is refused as a duplicate only for a voter
\* that the ledger it loads holds.
C20_StoreDuringTally ==
    /\ [](tallying_in_progress =>
            \A q \in Procs :
                /\ Free(q) =>
                      \A b \in Ballots, t \in Timestamps :
                          ~HasVoted(load_ledger, b[1])
                             => ENABLED StoreVoteLoad(q, b[1], b[2], t)
                /\ pc[q] = "store_open" => ENABLED StoreVoteOpen(q)
                /\ pc[q] = "store_write" => ENABLED StoreVoteWrite(q))
    /\ [][\A q \in Procs :
             /\ (pc[q] = "idle" /\ response'.proc = q
                   /\ response'.error = "Voter has already cast a vote")
                => HasVoted(load_ledger, response'.voter_id)
             /\ (pc[q] = "store_write" /\ pc'[q] # "store_write")
                => StoreSuccess(response')]_vars

\* A submission has been answered with success, its entry written while a
\* tally run is in its time lock.
C20_Witness ==
    /\ StoreSuccess(response)
    /\ tallying_in_progress
    /\ response.vote_hash \in midTally
    /\ \E t \in Procs : pc[t] = "time_lock"

\* C21: the step in which a store writes the ledger leaves the mark and
\* the results file as they are, and the step in which a tally run writes
\* the ledger leaves the entries and total_votes as they are; the documents
\* compared are the one written and the one written before it.
C21_Frame ==
    [][\A p \in Procs :
          /\ (pc[p] = "store_write" /\ pc'[p] # "store_write")
             => /\ lastLedger'.metadata.last_tallied_index
                      = lastLedger.metadata.last_tallied_index
                /\ resultsFile' = resultsFile
          /\ (pc[p] = "tally_write" /\ pc'[p] # "tally_write")
             => /\ lastLedger'.votes = lastLedger.votes
                /\ lastLedger'.metadata.total_votes
                      = lastLedger.metadata.total_votes]_vars

C23_MarkWithResults ==
    \A i \in 1..Len(load_ledger.votes) :
        (i - 1 <= load_ledger.metadata.last_tallied_index
            /\ Decrypts(load_ledger.votes[i]))
        => load_ledger.votes[i].vote_hash \in counted

\* C24: when add_blockchain_style_linking has returned, on a ledger of any
\* length, verify_blockchain_integrity on the file as it then is returns
\* True.
C24_LinkThenVerify ==
    [][(LinkNothing(1) \/ LinkWrite(1))
          => verify_blockchain_integrity(ledgerFile').valid]_vars

\* The same for the runs that had votes to link.
LinkedThenVerify ==
    [][LinkWrite(1) => verify_blockchain_integrity(ledgerFile').valid]_vars

\* C25: when the ciphertext of entry i of a linked ledger that verifies is
\* replaced, verify_blockchain_integrity returns False and names block i:
\* the entries before i pass, and entry i is the first that does not.
C25_TamperFound ==
    [][\A i \in 1..MaxTotal, c \in ChainCiphertexts :
          (Tamper(i, c) /\ verify_blockchain_integrity(ledgerFile).valid)
          => LET r == verify_blockchain_integrity(ledgerFile')
                 before == [ledgerFile'.doc EXCEPT
                              !.votes = SubSeq(ledgerFile'.doc.votes, 1, i - 1)]
             IN /\ ~r.valid
                /\ r.block = i
                /\ verify_blockchain_integrity(JsonFile(before)).valid]_vars

\* A run of verify_blockchain_integrity has named block 2 of a ledger of
\* three linked entries.
C25_Witness ==
    /\ response.proc = 1
    /\ ~response.success
    /\ response.error = "Block 2: Block hash mismatch! Tampering detected!"
    /\ Len(load_ledger.votes) = 3
    /\ load_ledger.blockchain_enabled
    /\ load_ledger.votes[2].encrypted_vote = "encX"
    /\ load_ledger.votes[3].block_number = 3

\* C26: the document a run of add_blockchain_style_linking writes is the
\* document a second run on it computes: previous_hash, block_hash and
\* block_number of every entry, and every other field of the ledger, stay
\* as the first run left them.
C26_LinkIdempotent ==
    [][LinkWrite(1)
          => /\ load_ledger' = local[1].ledger
             /\ add_blockchain_style_linking(load_ledger') = load_ledger'
             /\ LinkVotes(load_ledger'.votes, 0, GenesisHash) = load_ledger'.votes]_vars

\* A second run has linked a ledger of two entries that the run before it
\* wrote, and is about to write the same document.
C26_Witness ==
    /\ pc[1] = "link_write"
    /\ Len(local[1].ledger.votes) = 2
    /\ local[1].ledger = lastLedger
    /\ lastLedger.chain_length = 2

\* C27: a step of tally_status, get_results, view_ledger or
\* verify_blockchain_integrity leaves the ledger file, the results file and
\* the tallying_in_progress flag as they are, whatever the other threads
\* are doing.
C27_ReadsChangeNothing ==
    [][\A p \in Procs :
          ReadStep(p) => /\ ledgerFile' = ledgerFile
                         /\ resultsFile' = resultsFile
                         /\ tallying_in_progress' = tallying_in_progress]_vars

\* get_results has answered while a tally run holds the flag and has the
\* ledger file open for its write.
C27_Witness ==
    /\ response.body.route = "get_results"
    /\ response.code = 200
    /\ response.body.tallying_in_progress
    /\ ledgerFile.kind = "empty"
    /\ resultsFile.exists
    /\ \E p \in Procs : pc[p] = "tally_write"

\* C28: the pending count tally_status and get_results send is the
\* total_votes of the ledger they loaded less last_tallied_index + 1, it is
\* not negative, and tally_status sends tallied_votes + new_votes_pending =
\* total_votes.
C28_PendingCount ==
    [][\A p \in Procs :
          LET ledger == load_ledger
              pending == ledger.metadata.total_votes
                           - (ledger.metadata.last_tallied_index + 1)
              body == response'.body
          IN /\ TallyStatus(p)
                  => /\ body.new_votes_pending = pending
                     /\ body.new_votes_pending >= 0
                     /\ body.total_votes = ledger.metadata.total_votes
                     /\ body.tallied_votes + body.new_votes_pending = body.total_votes
             /\ GetResultsReply(p)
                  => /\ body.pending_votes = pending
                     /\ body.pending_votes >= 0]_vars

\* tally_status has answered with one of two votes tallied and one pending.
C28_Witness ==
    /\ response.body.route = "tally_status"
    /\ response.body.total_votes = 2
    /\ response.body.tallied_votes = 1
    /\ response.body.new_votes_pending = 1
    /\ load_ledger.metadata.last_tallied_index = 0

\* C29: the vote_hash of every entry of the ledger file is the hash of the
\* voter_id, encrypted_vote and timestamp stored in that entry, after every
\* step of the stores, the tally runs and the linking.
C29_EntryHashOfFields ==
    \A i \in 1..Len(load_ledger.votes) :
        LET vote == load_ledger.votes[i]
        IN vote.vote_hash
             = sha256(vote.voter_id \o vote.encrypted_vote \o vote.timestamp)

\* Two entries have been stored, tallied and linked.
C29_Witness ==
    /\ Len(load_ledger.votes) = 2
    /\ load_ledger.metadata.last_tallied_index = 1
    /\ load_ledger.blockchain_enabled
    /\ load_ledger.votes[2].block_number = 2
    /\ load_ledger.votes[2].encrypted_vote = "junk"

\* C30: a run enters its time lock once, from the load of its snapshot, with
\* a range that is not empty and nothing decrypted; the snapshot and the
\* range stay as they are through the time lock; decrypted votes appear
\* only in the step that ends a time lock of non-negative length; a run
\* whose range is empty leaves without a time lock.
C30_Step(p) ==
    /\ (pc'[p] = "time_lock" /\ pc[p] # "time_lock")
          => /\ pc[p] = "decrypt_load"
             /\ local'[p].ledger = load_ledger
             /\ local'[p].votes_to_process
                   = VotesToProcess(load_ledger, local[p].mode = "full")
             /\ local'[p].votes_to_process # << >>
             /\ local'[p].decrypted_votes = << >>
    /\ (pc'[p] = "decrypt_load" /\ pc[p] # "decrypt_load") => pc[p] = "tally_check"
    /\ (pc'[p] = "tally_check" /\ pc[p] # "tally_check") => pc[p] = "idle"
    /\ pc[p] = "time_lock"
          => /\ pc'[p] \in {"time_lock", "tally_write", "idle"}
             /\ pc'[p] # "idle" =>
                   /\ local'[p].votes_to_process = local[p].votes_to_process
                   /\ local'[p].start_index = local[p].start_index
                   /\ local'[p].ledger.votes = local[p].ledger.votes
    /\ local'[p].decrypted_votes # local[p].decrypted_votes
          => \/ /\ pc[p] = "time_lock"
                /\ local[p].time_lock_seconds >= 0
                /\ local[p].decrypted_votes = << >>
                /\ pc'[p] = "tally_write"
             \/ /\ pc'[p] = "idle"
                /\ local'[p].decrypted_votes = << >>
    /\ (/\ pc[p] = "decrypt_load"
        /\ VotesToProcess(load_ledger, local[p].mode = "full") = << >>)
          => pc'[p] \in {"decrypt_load", "idle"}

C30_TimeLockBeforeDecrypt ==
    [][\A p \in Procs : C30_Step(p)]_vars

\* A run has ended a time lock of five seconds and decrypted its range of
\* two entries.
C30_Witness ==
    \E p \in Procs :
        /\ pc[p] = "tally_write"
        /\ local[p].time_lock_seconds = 5
        /\ Len(local[p].votes_to_process) = 2
        /\ Len(local[p].decrypted_votes) = 1

\* C31: in the ledger a run of add_blockchain_style_linking has written, the
\* previous_hash of the first entry is 64 zero characters, the previous_hash
\* of every later entry is the block_hash of the entry before it, each
\* block_hash is the hash of the entry's voter_id, encrypted_vote, timestamp
\* and previous_hash, and the entry at index i (0-based) has block_number
\* i + 1.
C31_ChainShape ==
    [][LinkWrite(1)
          => LET votes == load_ledger'.votes
             IN /\ votes # << >>
                /\ Len(GenesisHash) = 64
                /\ \A k \in 1..64 : SubSeq(GenesisHash, k, k) = "0"
                /\ votes[1].previous_hash = GenesisHash
                /\ \A i \in 2..Len(votes) :
                      votes[i].previous_hash = votes[i - 1].block_hash
                /\ \A i \in 1..Len(votes) :
                      /\ votes[i].block_hash
                            = sha256(votes[i].voter_id \o votes[i].encrypted_vote
                                       \o votes[i].timestamp \o votes[i].previous_hash)
                      /\ votes[i].block_number = i]_vars

\* A run has linked a ledger of three entries.
C31_Witness ==
    /\ pc[1] = "idle"
    /\ response.success
    /\ response.code = 0
    /\ Len(load_ledger.votes) = 3
    /\ load_ledger.chain_length = 3
    /\ load_ledger.latest_block_hash = load_ledger.votes[3].block_hash
    /\ load_ledger.votes[3].previous_hash = load_ledger.votes[2].block_hash
    /\ load_ledger.votes[2].previous_hash # GenesisHash

\* C32 (one request at a time): the tallied flag of an entry is false when
\* the store has written it, it never goes from true to false, and when a
\* run has ended with success it is true for every entry of the range the
\* run processed.
C32_Step ==
    /\ (pc[1] = "store_write" /\ pc'[1] = "idle")
          => ~load_ledger'.votes[Len(load_ledger'.votes)].tallied
    /\ \A i \in 1..Len(load_ledger.votes) :
          (load_ledger.votes[i].tallied /\ i <= Len(load_ledger'.votes))
          => load_ledger'.votes[i].tallied
    /\ (pc[1] = "tally_votes" /\ pc'[1] = "idle" /\ response'.code = 200)
          => \A i \in 1..Len(load_ledger'.votes) :
                i - 1 >= local[1].start_index => load_ledger'.votes[i].tallied

C32_TalliedFlag == [][C32_Step]_vars

\* C33 (one request at a time): a request to /tally_results without a mode
\* is admitted as one with the mode "incremental" is, and the run it starts
\* takes the entries behind the mark for its range, goes on to write when
\* one of them decrypts, adds their votes onto the counts of the results
\* file, and is answered 200 with those counts and a winner among them.
C33_Step ==
    /\ TallyAdmit(1, NoField) <=> TallyAdmit(1, "incremental")
    /\ TallyAdmit(1, NoField) => local'[1].mode = "incremental"
    /\ local[1].mode = "incremental" =>
          /\ (pc[1] = "decrypt_load" /\ pc'[1] = "time_lock")
                => local'[1].votes_to_process
                     = SubSeq(load_ledger.votes,
                              load_ledger.metadata.last_tallied_index + 2,
                              Len(load_ledger.votes))
          /\ (/\ pc[1] = "time_lock"
              /\ pc'[1] # "time_lock"
              /\ local[1].time_lock_seconds >= 0
              /\ \E k \in 1..Len(local[1].votes_to_process) :
                    Decrypts(local[1].votes_to_process[k]))
                => pc'[1] = "tally_write"
          /\ (pc[1] = "tally_votes" /\ pc'[1] # "tally_votes")
                => /\ response'.code = 200
                   /\ response'.success
                   /\ resultsFile'.doc.tally_type = "incremental"
                   /\ resultsFile'.doc.winner \in Candidates
                   /\ CountOf(resultsFile'.doc.vote_counts, resultsFile'.doc.winner) >= 1
                   /\ \A c \in Candidates :
                         CountOf(resultsFile'.doc.vote_counts, c)
                            = (IF resultsFile.exists
                               THEN CountOf(resultsFile.doc.vote_counts, c)
                               ELSE 0)
                              + VotesFor(local[1].votes_to_process, c)

C33_DefaultIsIncremental == [][C33_Step]_vars

\* A run without a mode has added the third vote onto the counts of two:
\* the results are incremental, hold three votes, and the winner is A.
C33_Witness ==
    /\ pc[1] = "idle"
    /\ response.code = 200
    /\ resultsFile.doc.tally_type = "incremental"
    /\ resultsFile.doc.total_votes = 3
    /\ resultsFile.doc.winner = "A"
    /\ load_ledger.metadata.last_tallied_index = 2
    /\ Cardinality(counted) = 3
    /\ load_ledger.votes[2].encrypted_vote = "encB"

\* C34: a run that finds no votes in the ledger it loads is refused, whatever
\* its mode: at the check of tally_results with 400, or at the load of
\* decrypt_all_votes with 500; it does not enter the time lock, and its step
\* leaves the ledger file, with the mark, and the results file as they are.
C34_Step(p) ==
    (/\ pc[p] \in {"tally_check", "decrypt_load"}
     /\ Len(load_ledger.votes) = 0
     /\ pc'[p] # pc[p])
    => /\ pc'[p] = "idle"
       /\ response'.proc = p
       /\ ~response'.success
       /\ response'.code = IF pc[p] = "tally_check" THEN 400 ELSE 500
       /\ response'.error = IF pc[p] = "tally_check"
                             THEN "No votes in ledger to tally"
                             ELSE FailedToDecrypt.error
       /\ ledgerFile' = ledgerFile
       /\ resultsFile' = resultsFile
       /\ ~tallying_in_progress'

C34_EmptyLedgerRefused == [][\A p \in Procs : C34_Step(p)]_vars

\* A run on the ledger of a fresh service has been refused: the ledger is
\* empty, there are no results and the flag is down.
C34_Witness ==
    /\ response.code = 400
    /\ response.error = "No votes in ledger to tally"
    /\ ledgerFile = JsonFile(EmptyLedger)
    /\ ~resultsFile.exists
    /\ ~tallying_in_progress
    /\ \A p \in Procs : pc[p] = "idle"

\* C35 (one request at a time): whatever the mode of the request, the
\* vote_counts a run writes are either those of every entry of the ledger it
\* loaded, from index 0, or the counts of the results file plus those of the
\* entries behind the mark it found.
C35_Step ==
    (pc[1] = "tally_votes" /\ pc'[1] # "tally_votes")
    => \/ \A c \in Candidates :
             CountOf(resultsFile'.doc.vote_counts, c)
                = VotesFor(local[1].ledger.votes, c)
       \/ \A c \in Candidates :
             CountOf(resultsFile'.doc.vote_counts, c)
                = (IF resultsFile.exists
                   THEN CountOf(resultsFile.doc.vote_counts, c)
                   ELSE 0)
                  + VotesFor(AfterOldMark(1), c)

C35_RangeAndPolicyAgree == [][C35_Step]_vars

\* C36: the step that answers 409 leaves the flag set and the run that set
\* it where it is; after a refusal, as long as that run has not left, the
\* flag is set, no request is admitted and a further request can only be
\* refused.
C36_RefusalKeepsFlag ==
    /\ []((response.code = 409 /\ \E q \in Procs : pc[q] \in TallyLabels)
            => /\ tallying_in_progress
               /\ \A p \in Procs :
                     Free(p) => /\ ENABLED TallyRefuse(p)
                                /\ \A m \in ModeInputs : ~ENABLED TallyAdmit(p, m))
    /\ [][\A p \in Procs :
             TallyRefuse(p)
             => /\ tallying_in_progress'
                /\ \E q \in Procs : /\ pc[q] \in TallyLabels
                                     /\ pc'[q] = pc[q]
                                     /\ local'[q] = local[q]]_vars

\* A request has been refused while the run that holds the flag is about to
\* write its results.
C36_Witness ==
    /\ response.code = 409
    /\ response.proc = 2
    /\ tallying_in_progress
    /\ pc[1] = "tally_votes"
    /\ pc[2] = "idle"

\* C37: in the ledger file, whenever it holds a document, and in the ledger
\* a reader loads, metadata.total_votes is the number of entries of votes,
\* under every interleaving of stores and tally runs.
C37_TotalIsLength ==
    /\ ledgerFile.kind = "json"
          => ledgerFile.doc.metadata.total_votes = Len(ledgerFile.doc.votes)
    /\ load_ledger.metadata.total_votes = Len(load_ledger.votes)
    /\ \A p \in Procs :
          pc[p] \in {"store_write", "tally_write"}
          => local[p].ledger.metadata.total_votes = Len(local[p].ledger.votes)

\* A second vote has been stored while a run that loaded the first one is
\* in its time lock: the file holds two entries and counts two.
C37_Witness ==
    /\ \E p \in Procs : /\ pc[p] = "time_lock"
                         /\ Len(local[p].ledger.votes) = 1
    /\ midTally # {}
    /\ ledgerFile.kind = "json"
    /\ Len(ledgerFile.doc.votes) = 2
    /\ ledgerFile.doc.metadata.total_votes = 2

\* C38 (one request at a time): the results file, once a run has written
\* it, holds a total_votes that is the sum of its vote_counts and at least
\* 1, counts that are all positive, and a winner that is a key of
\* vote_counts with the largest count.
C38_ResultsWellFormed ==
    resultsFile.exists
    => LET results == resultsFile.doc
       IN /\ results.total_votes = SumCounts(results.vote_counts)
          /\ results.total_votes >= 1
          /\ results.vote_counts # << >>
          /\ \A i \in 1..Len(results.vote_counts) : results.vote_counts[i].count >= 1
          /\ results.winner # NoField
          /\ HasKey(results.vote_counts, results.winner)
          /\ \A i \in 1..Len(results.vote_counts) :
                results.vote_counts[i].count
                   <= CountOf(results.vote_counts, results.winner)

\* A full run has written the counts of three votes: B 1, A 2, winner A.
C38_Witness ==
    /\ pc[1] = "idle"
    /\ response.code = 200
    /\ resultsFile.exists
    /\ resultsFile.doc.tally_type = "full"
    /\ resultsFile.doc.total_votes = 3
    /\ resultsFile.doc.vote_counts
          = <<[candidate |-> "B", count |-> 1], [candidate |-> "A", count |-> 2]>>
    /\ resultsFile.doc.winner = "A"

\* The chain fields of an entry.
ChainFields(vote) ==
    <<vote.previous_hash, vote.block_hash, vote.block_number>>

\* C39 (one operation at a time): the write of a store and the write of a
\* tally run leave previous_hash, block_hash and block_number of every entry
\* that was in the ledger, and the chain fields of the ledger, as they were;
\* the entry a store adds has no previous_hash, no block_hash and no
\* block_number.
C39_Step ==
    /\ (pc[1] \in {"store_write", "tally_write"} /\ pc'[1] # pc[1])
          => /\ Len(load_ledger'.votes) >= Len(lastLedger.votes)
             /\ \A i \in 1..Len(lastLedger.votes) :
                   ChainFields(load_ledger'.votes[i]) = ChainFields(lastLedger.votes[i])
             /\ load_ledger'.blockchain_enabled = lastLedger.blockchain_enabled
             /\ load_ledger'.chain_length = lastLedger.chain_length
             /\ load_ledger'.latest_block_hash = lastLedger.latest_block_hash
    /\ (pc[1] = "store_write" /\ pc'[1] # pc[1])
          => /\ Len(load_ledger'.votes) = Len(lastLedger.votes) + 1
             /\ ChainFields(load_ledger'.votes[Len(load_ledger'.votes)])
                   = <<NoField, NoField, 0>>

C39_ChainDataKept == [][C39_Step]_vars

\* A ledger of one entry has been linked and tallied, and a second entry
\* has been stored: the first is block 1, the second has no chain fields.
C39_Witness ==
    /\ pc[1] = "idle"
    /\ StoreSuccess(response)
    /\ Len(load_ledger.votes) = 2
    /\ load_ledger.blockchain_enabled
    /\ load_ledger.chain_length = 1
    /\ load_ledger.metadata.last_tallied_index = 0
    /\ ChainFields(load_ledger.votes[1])
          = <<GenesisHash, BlockHash(load_ledger.votes[1], GenesisHash), 1>>
    /\ ChainFields(load_ledger.votes[2]) = <<NoField, NoField, 0>>

\* The text store_encrypted_vote hashes for vote_hash.
HashInput(vote) == vote.voter_id \o vote.encrypted_vote \o vote.timestamp

\* C40: two entries of the ledger that differ in voter_id, encrypted_vote or
\* timestamp have different texts hashed for vote_hash, and different texts
\* hashed for block_hash on the same previous_hash, so their hashes differ.
C40_HashInputInjective ==
    \A i, j \in 1..Len(load_ledger.votes) :
        LET a == load_ledger.votes[i]
            b == load_ledger.votes[j]
        IN <<a.voter_id, a.encrypted_vote, a.timestamp>>
              # <<b.voter_id, b.encrypted_vote, b.timestamp>>
           => /\ HashInput(a) # HashInput(b)
              /\ a.vote_hash # b.vote_hash
              /\ BlockHash(a, GenesisHash) # BlockHash(b, GenesisHash)

====
